---- MODULE Spec2Model ----
(***************************************************************************)
(* A model of SNExercise (sn_exercise.py): the calculator object holding   *)
(* omega_m, h and redshift_range, and its five methods                     *)
(* calculate_parameter_s, calculate_scale_factor, conformal_time,          *)
(* luminosity_distance and distance_modulus.                               *)
(*                                                                         *)
(* Every method call is a frame on the calling thread's stack; a frame     *)
(* advances from one method-call boundary to the next, so that the calls   *)
(* of several threads interleave at those boundaries.                      *)
(*                                                                         *)
(* Floating-point numbers are modelled as fixed-point integers of          *)
(* resolution 1/Scale with truncating arithmetic: the integer x stands     *)
(* for the real number x/Scale.  A Python value is a record                *)
(* [k, v]: k = "none" (None), "scalar" (a float, v of length 1) or         *)
(* "array" (a numpy array, v its elements).                                *)
(***************************************************************************)
EXTENDS Integers, Sequences, FiniteSets, TLC

\* fixed-point resolution of the modelled floats: x stands for x / Scale
Scale == 100

\* number of binary digits computed for the fractional part of log10
LogBits == 5

\* number of threads sharing the instance in the concurrent specification
NumCallers == 2

---------------------------------------------------------------------------
(* Python values *)

None == [k |-> "none", v |-> <<>>]

Scalar(x) == [k |-> "scalar", v |-> <<x>>]

Array(xs) == [k |-> "array", v |-> xs]

IsNone(a) == a.k = "none"

\* number of elements of a value (a scalar has one)
Size(a) == Len(a.v)

\* element i of a value under numpy broadcasting: a scalar is repeated
Elem(a, i) == IF a.k = "array" THEN a.v[i] ELSE a.v[1]

\* the shape of the result of an elementwise operation on a and b
Shaped(a, b, xs) == IF a.k = "array" \/ b.k = "array" THEN Array(xs) ELSE Scalar(xs[1])

BroadLen(a, b) == IF a.k = "array" THEN Len(a.v) ELSE Len(b.v)

---------------------------------------------------------------------------
(* fixed-point float arithmetic *)

Add(x, y) == x + y

Sub(x, y) == x - y

Mul(x, y) == (x * y) \div Scale

Div(x, y) == (x * Scale) \div y

\* the float of an integer literal n
Lit(n) == n * Scale

\* the product of x with the decimal literal num/den (0.1540 = 1540/10000)
Coef(num, den, x) == (num * x) \div den

\* np.sqrt(x), x >= 0: the largest r with (r/Scale)^2 <= x/Scale
Sqrt(x) ==
    CHOOSE r \in 0..(x + Scale) :
        r * r <= x * Scale /\ (r + 1) * (r + 1) > x * Scale

\* x ** (1 / 3), x >= 0: the largest r with (r/Scale)^3 <= x/Scale
Cbrt(x) ==
    CHOOSE r \in 0..(x + Scale) :
        /\ r * r * r <= x * Scale * Scale
        /\ (r + 1) * (r + 1) * (r + 1) > x * Scale * Scale

\* x ** n for the integer exponents 2, 3 and 4
Pow2(x) == Mul(x, x)

Pow3(x) == Mul(Mul(x, x), x)

Pow4(x) == Mul(Mul(Mul(x, x), x), x)

\* x ** (-1 / 8), x > 0: the reciprocal of the eighth root
PowNegEighth(x) == Div(Scale, Sqrt(Sqrt(Sqrt(x))))

\* the fractional part of log10 of m, Scale <= m < 10 * Scale, to `bits`
\* binary digits, as a numerator over 2^bits (square and compare with 10)
RECURSIVE LogFrac(_, _)
LogFrac(m, bits) ==
    IF bits = 0 THEN 0
    ELSE LET sq == Mul(m, m)
         IN  IF sq >= 10 * Scale
             THEN 2 ^ (bits - 1) + LogFrac(sq \div 10, bits - 1)
             ELSE LogFrac(sq, bits - 1)

\* np.log10(x); for x <= 0 numpy gives -inf or nan with a warning, modelled
\* as a value below every finite logarithm
RECURSIVE Log10(_)
Log10(x) ==
    IF x <= 0 THEN 0 - Scale * Scale * Scale
    ELSE IF x >= 10 * Scale THEN Scale + Log10(x \div 10)
    ELSE IF x < Scale THEN Log10(x * 10) - Scale
    ELSE (LogFrac(x, LogBits) * Scale) \div (2 ^ LogBits)

---------------------------------------------------------------------------
(* outcomes of a call *)

InvalidDensity == "omega_m cannot be zero."

InvalidDistance == "All luminosity distances must be positive for valid log computation."

NoResult == [kind |-> "none", val |-> None, err |-> ""]

Return(v) == [kind |-> "val", val |-> v, err |-> ""]

Raise(e) == [kind |-> "err", val |-> None, err |-> e]

---------------------------------------------------------------------------
(* the bodies of the methods, as functions of their arguments *)

\* `if x is None: x = self.x`
OrStored(arg, stored) == IF IsNone(arg) THEN stored ELSE arg

\* `not omega_m`: None and the number 0 are both falsy
Falsy(a) == IsNone(a) \/ (a.k = "scalar" /\ a.v[1] = 0)

\* `if not omega_m: omega_m = self.omega_m`
OrStoredIfFalsy(arg, stored) == IF Falsy(arg) THEN stored ELSE arg

\* calculate_parameter_s: the default, the zero guard, the cube root
ParameterSBody(om_arg, self_om) ==
    LET om == OrStoredIfFalsy(om_arg, self_om).v[1]
    IN  IF om = 0
        THEN Raise(InvalidDensity)
        ELSE Return(Scalar(Cbrt(Div(Sub(Lit(1), om), om))))

\* 1 / (1 + redshift_range)
ScaleFactorOf(z) == Div(Lit(1), Add(Lit(1), z))

\* elementwise over a numpy array
ScaleFactorBody(z) == [k |-> z.k, v |-> [i \in 1..Size(z) |-> ScaleFactorOf(z.v[i])]]

\* the coefficients of the fitted approximation, as decimal fractions
C1Num == 1540
C1Den == 10000
C2Num == 4304
C2Den == 10000
C3Num == 19097
C3Den == 100000
C4Num == 66941
C4Den == 1000000

\* multiplier * multiplicand ** (-1 / 8) for a scalar s and a scalar a
EtaOf(s, a) ==
    LET multiplier == 2 * Sqrt(Add(Pow3(s), Lit(1)))
        multiplicand ==
            Div(Lit(1), Pow4(a))
            - Div(Coef(C1Num, C1Den, s), Pow3(a))
            + Div(Coef(C2Num, C2Den, Pow2(s)), Pow2(a))
            + Div(Coef(C3Num, C3Den, Pow3(s)), a)
            + Coef(C4Num, C4Den, Pow4(s))
    IN  Mul(multiplier, PowNegEighth(multiplicand))

\* elementwise over a numpy array a, the scalar s broadcast
EtaFormula(s, a) ==
    Shaped(s, a, [i \in 1..BroadLen(s, a) |-> EtaOf(Elem(s, i), Elem(a, i))])

\* c / H0 in Mpc / h
HubbleDistance == 3000

\* 3_000 * (redshift_range + 1) * (eta_a1 - eta_z) for scalars
DlOf(z, eta_a1, eta_z) == Mul(HubbleDistance * Add(z, Lit(1)), Sub(eta_a1, eta_z))

\* the factor (redshift_range + 1) taken from the first redshift for every element
DlFormulaFirstRedshift(z, eta_a1, eta_z) ==
    Shaped(z, eta_z,
           [i \in 1..BroadLen(z, eta_z) |->
                DlOf(Elem(z, 1), Elem(eta_a1, i), Elem(eta_z, i))])

DlFormula(z, eta_a1, eta_z) ==
    Shaped(z, eta_z,
           [i \in 1..BroadLen(z, eta_z) |->
                DlOf(Elem(z, i), Elem(eta_a1, i), Elem(eta_z, i))])

\* (luminosity_distance <= 0).all() in place of .any()
AllNonPositive(dl) == \A i \in 1..Size(dl) : dl.v[i] <= 0

\* (luminosity_distance < 0).any() in place of <= 0
AnyNegative(dl) == \E i \in 1..Size(dl) : dl.v[i] < 0

\* (luminosity_distance <= 0).any()
AnyNonPositive(dl) == \E i \in 1..Size(dl) : dl.v[i] <= 0

MuOffset == 25

MuFactor == 5

\* 25. - 5. * np.log10(h) + 5. * np.log10(luminosity_distance) for scalars
MuOf(hh, dl) == Lit(MuOffset) - MuFactor * Log10(hh) + MuFactor * Log10(dl)

\* elementwise over a numpy array dl, the scalar h broadcast
MuFormula(hh, dl) ==
    Shaped(hh, dl, [i \in 1..BroadLen(hh, dl) |-> MuOf(Elem(hh, i), Elem(dl, i))])

---------------------------------------------------------------------------
(* the instance and the threads calling it *)

VARIABLES
    omega_m,         \* self.omega_m
    h,               \* self.h
    redshift_range,  \* self.redshift_range
    stack,           \* per thread: the frames of the calls in progress, innermost last
    ret,             \* per thread: what the last finished frame returned or raised
    call,            \* per thread: the method called on the instance and its arguments
    trace,           \* per thread: the method invocations (with their redshift and
                     \*             omega_m arguments), the validation (with the value
                     \*             validated) and the logarithm, since its call began
    overrideSeen     \* some call so far was given an explicit argument

vars == <<omega_m, h, redshift_range, stack, ret, call, trace, overrideSeen>>

config == <<omega_m, h, redshift_range>>

Callers == DOMAIN stack

Frame(fn, z, om, hh) ==
    [fn |-> fn, pc |-> "entry", z |-> z, om |-> om, h |-> hh, loc |-> None]

Event(ev, z, om) == [ev |-> ev, z |-> z, om |-> om]

NoCall == [fn |-> "", z |-> None, om |-> None, h |-> None]

Top(c) == stack[c][Len(stack[c])]

Running(c, fn, pc) ==
    /\ stack[c] # <<>>
    /\ Top(c).fn = fn
    /\ Top(c).pc = pc

Pop(st) == SubSeq(st, 1, Len(st) - 1)

\* the innermost frame becomes f and calls the method of frame g
PushCall(c, f, g) ==
    /\ stack' = [stack EXCEPT ![c] = Append(Append(Pop(@), f), g)]
    /\ ret' = [ret EXCEPT ![c] = NoResult]
    /\ trace' = [trace EXCEPT ![c] = Append(@, Event(g.fn, g.z, g.om))]

\* the innermost frame ends with the outcome r
Leave(c, r) ==
    /\ stack' = [stack EXCEPT ![c] = Pop(@)]
    /\ ret' = [ret EXCEPT ![c] = r]

---------------------------------------------------------------------------
(* the values the model draws the configuration and the arguments from *)

Half == Scale \div 2

\* stored omega_m: 0 (which the guard of calculate_parameter_s rejects) and 0.3
StoredOmegas == {Scalar(0), Scalar((3 * Scale) \div 10)}

StoredH == Scalar((7 * Scale) \div 10)

StoredRedshifts == {Scalar(Half), Array(<<0, Scale>>)}

RedshiftArgs ==
    {None, Scalar(0 - Half), Scalar(0), Scalar(Scale),
     Array(<<0, Half, Scale>>), Array(<<0 - Half, Scale>>), Array(<<Half, Scale>>)}

OmegaArgs == {None, Scalar(0), Scalar(Half)}

HArgs == {None, Scalar(Scale)}

\* __init__: the configuration is read once, the threads have made no call
InitWith(callers) ==
    /\ omega_m \in StoredOmegas
    /\ h = StoredH
    /\ redshift_range \in StoredRedshifts
    /\ stack = [c \in callers |-> <<>>]
    /\ ret = [c \in callers |-> NoResult]
    /\ call = [c \in callers |-> NoCall]
    /\ trace = [c \in callers |-> <<>>]
    /\ overrideSeen = FALSE

Init == InitWith({1})

InitShared == InitWith(1..NumCallers)

---------------------------------------------------------------------------
(* a thread calls a method of the instance *)

Invoke(c, fn, z, om, hh) ==
    /\ stack[c] = <<>>
    /\ stack' = [stack EXCEPT ![c] = <<Frame(fn, z, om, hh)>>]
    /\ ret' = [ret EXCEPT ![c] = NoResult]
    /\ call' = [call EXCEPT ![c] = [fn |-> fn, z |-> z, om |-> om, h |-> hh]]
    /\ trace' = [trace EXCEPT ![c] = <<Event(fn, z, om)>>]
    /\ overrideSeen' = (overrideSeen \/ ~IsNone(z) \/ ~IsNone(om) \/ ~IsNone(hh))
    /\ UNCHANGED config

CallParameterS(c) ==
    \E om \in OmegaArgs : Invoke(c, "calculate_parameter_s", None, om, None)

CallScaleFactor(c) ==
    \E z \in RedshiftArgs : Invoke(c, "calculate_scale_factor", z, None, None)

CallConformalTime(c) ==
    \E z \in RedshiftArgs, om \in OmegaArgs : Invoke(c, "conformal_time", z, om, None)

CallLuminosityDistance(c) ==
    \E z \in RedshiftArgs, om \in OmegaArgs :
        Invoke(c, "luminosity_distance", z, om, None)

CallDistanceModulus(c) ==
    \E z \in RedshiftArgs, om \in OmegaArgs, hh \in HArgs :
        Invoke(c, "distance_modulus", z, om, hh)

\* the calls of the threads that share the instance
CallShared(c) ==
    \/ Invoke(c, "calculate_parameter_s", None, Scalar(0), None)
    \/ Invoke(c, "distance_modulus", None, None, None)
    \/ Invoke(c, "distance_modulus", Scalar(Scale), Scalar(Half), None)

---------------------------------------------------------------------------
(* the methods, one action per stretch of code between two method calls *)

\* calculate_parameter_s, whole
ParameterS(c) ==
    /\ Running(c, "calculate_parameter_s", "entry")
    /\ Leave(c, ParameterSBody(Top(c).om, omega_m))
    /\ UNCHANGED <<config, call, trace, overrideSeen>>

\* calculate_scale_factor with `if not redshift_range` in place of `is None`
ScaleFactorFalsy(c) ==
    /\ Running(c, "calculate_scale_factor", "entry")
    /\ Leave(c, Return(ScaleFactorBody(OrStoredIfFalsy(Top(c).z, redshift_range))))
    /\ UNCHANGED <<config, call, trace, overrideSeen>>

\* calculate_scale_factor, whole
ScaleFactor(c) ==
    /\ Running(c, "calculate_scale_factor", "entry")
    /\ Leave(c, Return(ScaleFactorBody(OrStored(Top(c).z, redshift_range))))
    /\ UNCHANGED <<config, call, trace, overrideSeen>>

\* conformal_time keeping its omega_m in self.omega_m
ConformalTimeEntryPersist(c) ==
    /\ Running(c, "conformal_time", "entry")
    /\ LET z == OrStored(Top(c).z, redshift_range)
           om == OrStored(Top(c).om, omega_m)
       IN  /\ PushCall(c, [Top(c) EXCEPT !.z = z, !.om = om, !.pc = "s"],
                       Frame("calculate_parameter_s", None, om, None))
           /\ omega_m' = om
    /\ UNCHANGED <<h, redshift_range, call, overrideSeen>>

\* conformal_time: the defaults, then the call of calculate_parameter_s
ConformalTimeEntry(c) ==
    /\ Running(c, "conformal_time", "entry")
    /\ LET z == OrStored(Top(c).z, redshift_range)
           om == OrStored(Top(c).om, omega_m)
       IN  PushCall(c, [Top(c) EXCEPT !.z = z, !.om = om, !.pc = "s"],
                    Frame("calculate_parameter_s", None, om, None))
    /\ UNCHANGED <<config, call, overrideSeen>>

\* conformal_time going on with s = 0 when calculate_parameter_s raised
ConformalTimeScaleLenient(c) ==
    /\ Running(c, "conformal_time", "s")
    /\ ret[c].kind # "none"
    /\ PushCall(c, [Top(c) EXCEPT
                        !.loc = IF ret[c].kind = "val" THEN ret[c].val ELSE Scalar(0),
                        !.pc = "a"],
                Frame("calculate_scale_factor", Top(c).z, None, None))
    /\ UNCHANGED <<config, call, overrideSeen>>

\* conformal_time: s is bound, then the call of calculate_scale_factor
ConformalTimeScale(c) ==
    /\ Running(c, "conformal_time", "s")
    /\ ret[c].kind = "val"
    /\ PushCall(c, [Top(c) EXCEPT !.loc = ret[c].val, !.pc = "a"],
                Frame("calculate_scale_factor", Top(c).z, None, None))
    /\ UNCHANGED <<config, call, overrideSeen>>

\* conformal_time: a is bound, eta is computed and returned
ConformalTimeReturn(c) ==
    /\ Running(c, "conformal_time", "a")
    /\ ret[c].kind = "val"
    /\ Leave(c, Return(EtaFormula(Top(c).loc, ret[c].val)))
    /\ UNCHANGED <<config, call, trace, overrideSeen>>

\* luminosity_distance calling conformal_time(redshift_range=0) without omega_m
LuminosityDistanceEntryStoredOmega(c) ==
    /\ Running(c, "luminosity_distance", "entry")
    /\ LET z == OrStored(Top(c).z, redshift_range)
           om == OrStored(Top(c).om, omega_m)
       IN  PushCall(c, [Top(c) EXCEPT !.z = z, !.om = om, !.pc = "eta_a1"],
                    Frame("conformal_time", Scalar(0), None, None))
    /\ UNCHANGED <<config, call, overrideSeen>>

\* luminosity_distance evaluating eta_a1 at the requested redshift instead of 0
LuminosityDistanceEntryAtZ(c) ==
    /\ Running(c, "luminosity_distance", "entry")
    /\ LET z == OrStored(Top(c).z, redshift_range)
           om == OrStored(Top(c).om, omega_m)
       IN  PushCall(c, [Top(c) EXCEPT !.z = z, !.om = om, !.pc = "eta_a1"],
                    Frame("conformal_time", z, om, None))
    /\ UNCHANGED <<config, call, overrideSeen>>

\* luminosity_distance: the defaults, then conformal_time at redshift 0
LuminosityDistanceEntry(c) ==
    /\ Running(c, "luminosity_distance", "entry")
    /\ LET z == OrStored(Top(c).z, redshift_range)
           om == OrStored(Top(c).om, omega_m)
       IN  PushCall(c, [Top(c) EXCEPT !.z = z, !.om = om, !.pc = "eta_a1"],
                    Frame("conformal_time", Scalar(0), om, None))
    /\ UNCHANGED <<config, call, overrideSeen>>

\* luminosity_distance: eta_a1 is bound, then conformal_time at the redshift
LuminosityDistanceEtaZ(c) ==
    /\ Running(c, "luminosity_distance", "eta_a1")
    /\ ret[c].kind = "val"
    /\ PushCall(c, [Top(c) EXCEPT !.loc = ret[c].val, !.pc = "eta_z"],
                Frame("conformal_time", Top(c).z, Top(c).om, None))
    /\ UNCHANGED <<config, call, overrideSeen>>

\* luminosity_distance: eta_z is bound, d_l is computed and returned
LuminosityDistanceReturn(c) ==
    /\ Running(c, "luminosity_distance", "eta_z")
    /\ ret[c].kind = "val"
    /\ Leave(c, Return(DlFormula(Top(c).z, Top(c).loc, ret[c].val)))
    /\ UNCHANGED <<config, call, trace, overrideSeen>>

\* distance_modulus keeping its redshift in self.redshift_range
DistanceModulusEntryPersist(c) ==
    /\ Running(c, "distance_modulus", "entry")
    /\ LET z == OrStored(Top(c).z, redshift_range)
           om == OrStored(Top(c).om, omega_m)
           hh == OrStored(Top(c).h, h)
       IN  /\ PushCall(c, [Top(c) EXCEPT !.z = z, !.om = om, !.h = hh, !.pc = "d_l"],
                       Frame("luminosity_distance", z, om, None))
           /\ redshift_range' = z
    /\ UNCHANGED <<omega_m, h, call, overrideSeen>>

\* distance_modulus: the defaults, then the call of luminosity_distance
DistanceModulusEntry(c) ==
    /\ Running(c, "distance_modulus", "entry")
    /\ LET z == OrStored(Top(c).z, redshift_range)
           om == OrStored(Top(c).om, omega_m)
           hh == OrStored(Top(c).h, h)
       IN  PushCall(c, [Top(c) EXCEPT !.z = z, !.om = om, !.h = hh, !.pc = "d_l"],
                    Frame("luminosity_distance", z, om, None))
    /\ UNCHANGED <<config, call, overrideSeen>>

\* distance_modulus: luminosity_distance is bound and validated
DistanceModulusCheck(c) ==
    /\ Running(c, "distance_modulus", "d_l")
    /\ ret[c].kind = "val"
    /\ trace' = [trace EXCEPT ![c] = Append(@, Event("check", ret[c].val, None))]
    /\ IF AnyNonPositive(ret[c].val)
       THEN Leave(c, Raise(InvalidDistance))
       ELSE /\ stack' = [stack EXCEPT ![c] =
                            Append(Pop(@), [Top(c) EXCEPT !.loc = ret[c].val, !.pc = "mu"])]
            /\ ret' = [ret EXCEPT ![c] = NoResult]
    /\ UNCHANGED <<config, call, overrideSeen>>

\* distance_modulus: the logarithms are taken and mu is returned
DistanceModulusReturn(c) ==
    /\ Running(c, "distance_modulus", "mu")
    /\ trace' = [trace EXCEPT ![c] = Append(@, Event("log10", None, None))]
    /\ Leave(c, Return(MuFormula(Top(c).h, Top(c).loc)))
    /\ UNCHANGED <<config, call, overrideSeen>>

\* an exception raised by a callee leaves the calling frame too: no method
\* has a try statement
Propagate(c) ==
    /\ stack[c] # <<>>
    /\ ret[c].kind = "err"
    /\ Leave(c, ret[c])
    /\ UNCHANGED <<config, call, trace, overrideSeen>>

Next ==
    \E c \in Callers :
        \/ CallParameterS(c)
        \/ CallScaleFactor(c)
        \/ CallConformalTime(c)
        \/ CallLuminosityDistance(c)
        \/ CallDistanceModulus(c)
        \/ ParameterS(c)
        \/ ScaleFactor(c)
        \/ ConformalTimeEntry(c)
        \/ ConformalTimeScale(c)
        \/ ConformalTimeReturn(c)
        \/ LuminosityDistanceEntry(c)
        \/ LuminosityDistanceEtaZ(c)
        \/ LuminosityDistanceReturn(c)
        \/ DistanceModulusEntry(c)
        \/ DistanceModulusCheck(c)
        \/ DistanceModulusReturn(c)
        \/ Propagate(c)

NextShared ==
    \E c \in Callers :
        \/ CallShared(c)
        \/ ParameterS(c)
        \/ ScaleFactor(c)
        \/ ConformalTimeEntry(c)
        \/ ConformalTimeScale(c)
        \/ ConformalTimeReturn(c)
        \/ LuminosityDistanceEntry(c)
        \/ LuminosityDistanceEtaZ(c)
        \/ LuminosityDistanceReturn(c)
        \/ DistanceModulusEntry(c)
        \/ DistanceModulusCheck(c)
        \/ DistanceModulusReturn(c)
        \/ Propagate(c)

\* one thread calling the instance, with every argument
Spec == Init /\ [][Next]_vars

\* NumCallers threads sharing the instance
SpecShared == InitShared /\ [][NextShared]_vars

---------------------------------------------------------------------------
(* the outcome of a call run alone on the instance: the methods composed *)

RunParameterS(om) == ParameterSBody(om, omega_m)

RunScaleFactor(z) == Return(ScaleFactorBody(OrStored(z, redshift_range)))

RunConformalTime(z, om) ==
    LET s == RunParameterS(OrStored(om, omega_m))
        a == RunScaleFactor(OrStored(z, redshift_range))
    IN  IF s.kind = "err" THEN s ELSE Return(EtaFormula(s.val, a.val))

RunLuminosityDistance(z, om) ==
    LET zz == OrStored(z, redshift_range)
        oo == OrStored(om, omega_m)
        eta_a1 == RunConformalTime(Scalar(0), oo)
        eta_z == RunConformalTime(zz, oo)
    IN  IF eta_a1.kind = "err" THEN eta_a1
        ELSE IF eta_z.kind = "err" THEN eta_z
        ELSE Return(DlFormula(zz, eta_a1.val, eta_z.val))

RunDistanceModulus(z, om, hh) ==
    LET d_l == RunLuminosityDistance(OrStored(z, redshift_range), OrStored(om, omega_m))
    IN  IF d_l.kind = "err" THEN d_l
        ELSE IF AnyNonPositive(d_l.val) THEN Raise(InvalidDistance)
        ELSE Return(MuFormula(OrStored(hh, h), d_l.val))

RunCall(cl) ==
    CASE cl.fn = "calculate_parameter_s" -> RunParameterS(cl.om)
      [] cl.fn = "calculate_scale_factor" -> RunScaleFactor(cl.z)
      [] cl.fn = "conformal_time" -> RunConformalTime(cl.z, cl.om)
      [] cl.fn = "luminosity_distance" -> RunLuminosityDistance(cl.z, cl.om)
      [] cl.fn = "distance_modulus" -> RunDistanceModulus(cl.z, cl.om, cl.h)

---------------------------------------------------------------------------
(* vocabulary of the properties *)

\* thread c has called a method and the call has returned or raised
Finished(c) == stack[c] = <<>> /\ call[c].fn # ""

FinishedCall(c, fn) == Finished(c) /\ call[c].fn = fn

\* the events of kind ev in the trace of thread c
Events(c, ev) == SelectSeq(trace[c], LAMBDA e : e.ev = ev)

\* the redshift a call of thread c works on: its argument, else the stored one
GivenRedshift(c) == IF call[c].z.k = "none" THEN redshift_range ELSE call[c].z

\* the omega_m a call of thread c hands down: its argument, else the stored one
GivenOmega(c) == IF call[c].om.k = "none" THEN omega_m ELSE call[c].om

\* the omega_m calculate_parameter_s divides by
UsedOmega(c) ==
    IF call[c].om.k = "none" \/ call[c].om.v = <<0>> THEN omega_m ELSE call[c].om

---------------------------------------------------------------------------
(* C1 *)

\* C1: calculate_parameter_s called with omega_m = 0 raises the invalid-density
\* error whatever the stored omega_m is; it never returns a value.
C1_ZeroOverrideRaises ==
    \A c \in Callers :
        FinishedCall(c, "calculate_parameter_s") /\ call[c].om = Scalar(0)
            => ret[c] = Raise(InvalidDensity)

---------------------------------------------------------------------------
(* C2 *)

\* C2: distance_modulus raises the invalid-distance error exactly when some
\* element of the luminosity distance it validates is <= 0, for a scalar and
\* for an array alike, and then takes no logarithm; it returns mu only when
\* every element is > 0, and only after the validation.
C2_InvalidDistance ==
    \A c \in Callers :
        /\ Running(c, "distance_modulus", "mu")
            => \A i \in 1..Size(Top(c).loc) : Top(c).loc.v[i] > 0
        /\ FinishedCall(c, "distance_modulus") /\ Events(c, "check") # <<>>
            => LET d_l == Events(c, "check")[1].z
                   bad == \E i \in 1..Size(d_l) : d_l.v[i] <= 0
               IN  /\ Len(Events(c, "check")) = 1
                   /\ d_l = RunLuminosityDistance(call[c].z, call[c].om).val
                   /\ bad => ret[c] = Raise(InvalidDistance) /\ Events(c, "log10") = <<>>
                   /\ ~bad => ret[c].kind = "val" /\ Len(Events(c, "log10")) = 1
        /\ FinishedCall(c, "distance_modulus") /\ ret[c].kind = "val"
            => Events(c, "check") # <<>>

\* an array with one negative and one positive distance was rejected
C2_Witness ==
    \E c \in Callers :
        /\ FinishedCall(c, "distance_modulus")
        /\ call[c].z.k = "array"
        /\ Events(c, "check") # <<>>
        /\ \E i, j \in 1..Size(call[c].z) :
              Events(c, "check")[1].z.v[i] < 0 /\ Events(c, "check")[1].z.v[j] > 0
        /\ ret[c] = Raise(InvalidDistance)

---------------------------------------------------------------------------
(* C3 *)

\* distance_modulus of the single redshift x, with the omega_m and h of the
\* call of thread c
ScalarCall(c, x) == RunDistanceModulus(Scalar(x), call[c].om, call[c].h)

\* C3 as stated: for an array of redshifts (such as [0.0, 0.5, 1.0]) and an
\* omega_m that calculate_parameter_s accepts, distance_modulus returns one
\* value per element, element i being the result of the scalar call at z[i].
C3_ArrayReturnsPerElement ==
    \A c \in Callers :
        /\ FinishedCall(c, "distance_modulus")
        /\ GivenRedshift(c).k = "array"
        /\ UsedOmega(c) # Scalar(0)
        => /\ ret[c].kind = "val"
           /\ ret[c].val.k = "array"
           /\ Size(ret[c].val) = Size(GivenRedshift(c))
           /\ \A i \in 1..Size(GivenRedshift(c)) :
                 Return(Scalar(ret[c].val.v[i])) = ScalarCall(c, GivenRedshift(c).v[i])

\* C3 amended: when the scalar call returns at every element, the array call
\* returns one value per element, equal to the scalar results; when the scalar
\* call raises at some element (redshift 0 among them), the array call raises
\* the invalid-distance error.
C3_ArrayMatchesScalarCalls ==
    \A c \in Callers :
        /\ FinishedCall(c, "distance_modulus")
        /\ GivenRedshift(c).k = "array"
        /\ UsedOmega(c) # Scalar(0)
        => LET z == GivenRedshift(c)
           IN  IF \A i \in 1..Size(z) : ScalarCall(c, z.v[i]).kind = "val"
               THEN /\ ret[c].kind = "val"
                    /\ ret[c].val.k = "array"
                    /\ Size(ret[c].val) = Size(z)
                    /\ \A i \in 1..Size(z) :
                          Return(Scalar(ret[c].val.v[i])) = ScalarCall(c, z.v[i])
               ELSE ret[c] = Raise(InvalidDistance)

\* an array of two positive redshifts gave two different values
C3_Witness ==
    \E c \in Callers :
        /\ FinishedCall(c, "distance_modulus")
        /\ call[c].z.k = "array"
        /\ ret[c].kind = "val"
        /\ Size(ret[c].val) = 2
        /\ ret[c].val.v[1] # ret[c].val.v[2]

---------------------------------------------------------------------------
(* C4 *)

\* C4: luminosity_distance at redshift 0 returns exactly 0, for an omega_m
\* given in the call or stored (any omega_m calculate_parameter_s accepts),
\* and so does every element of an array result whose redshift is 0.
C4_ZeroRedshiftZeroDistance ==
    \A c \in Callers :
        FinishedCall(c, "luminosity_distance")
            => /\ UsedOmega(c) # Scalar(0) => ret[c].kind = "val"
               /\ ret[c].kind = "val"
                    => /\ Size(ret[c].val) = Size(GivenRedshift(c))
                       /\ \A i \in 1..Size(GivenRedshift(c)) :
                             GivenRedshift(c).v[i] = 0 => ret[c].val.v[i] = 0

\* redshift 0 and an omega_m other than the stored one were given, 0 came back
C4_Witness ==
    \E c \in Callers :
        /\ FinishedCall(c, "luminosity_distance")
        /\ call[c].z = Scalar(0)
        /\ call[c].om.k = "scalar"
        /\ call[c].om # omega_m
        /\ call[c].om # Scalar(0)
        /\ omega_m # Scalar(0)
        /\ ret[c] = Return(Scalar(0))

---------------------------------------------------------------------------
(* C5 *)

\* the frame of the method thread c called, once its defaults are applied,
\* holds the stored value for every argument the call omitted
OmittedMeansStored(c) ==
    stack[c] # <<>> /\ stack[c][1].pc # "entry"
        => /\ call[c].z.k = "none" => stack[c][1].z = redshift_range
           /\ call[c].om.k = "none" => stack[c][1].om = omega_m
           /\ call[c].fn = "distance_modulus" /\ call[c].h.k = "none"
                => stack[c][1].h = h

\* C5: no step of any call, returning or raising, changes the stored omega_m,
\* h or redshift; a call that omits an argument works on the stored value,
\* whatever earlier calls were given, and a call that omits them all has the
\* outcome the stored values determine.
C5_ConfigurationNeverChanges ==
    /\ [][config' = config]_vars
    /\ [](\A c \in Callers :
            /\ OmittedMeansStored(c)
            /\ Finished(c) /\ call[c].z.k = "none" /\ call[c].om.k = "none"
                           /\ call[c].h.k = "none"
                 => ret[c] = RunCall([call[c] EXCEPT !.z = redshift_range,
                                                     !.om = omega_m, !.h = h]))

\* after a call with explicit arguments, a call without any has returned
C5_Witness ==
    \E c \in Callers :
        /\ overrideSeen
        /\ FinishedCall(c, "distance_modulus")
        /\ call[c].z.k = "none" /\ call[c].om.k = "none" /\ call[c].h.k = "none"
        /\ ret[c].kind = "val"

---------------------------------------------------------------------------
(* C6 *)

\* C6: with several threads calling the same instance in any interleaving,
\* every finished call has the outcome (value or error) the same call has when
\* run alone; the outcome depends on the call only, so repeating it repeats it.
C6_SameOutcomeAsAlone ==
    \A c \in Callers : Finished(c) => ret[c] = RunCall(call[c])

\* one thread has returned from a call with explicit arguments while another
\* is inside a call without arguments
C6_Witness ==
    \E c, d \in Callers :
        /\ c # d
        /\ FinishedCall(c, "distance_modulus")
        /\ call[c].om.k = "scalar"
        /\ ret[c].kind = "val"
        /\ call[d].fn = "distance_modulus"
        /\ call[d].om.k = "none"
        /\ Len(stack[d]) >= 3

---------------------------------------------------------------------------
(* C7 *)

\* C7: for every redshift z >= 0 calculate_scale_factor returns a value in
\* (0, 1]; for z = 0 it returns exactly 1, also when 0 is given explicitly to
\* an instance whose stored redshift is not 0.
C7_ScaleFactorRange ==
    \A c \in Callers :
        FinishedCall(c, "calculate_scale_factor")
            => /\ ret[c].kind = "val"
               /\ Size(ret[c].val) = Size(GivenRedshift(c))
               /\ \A i \in 1..Size(GivenRedshift(c)) :
                     /\ GivenRedshift(c).v[i] >= 0
                          => ret[c].val.v[i] > 0 /\ ret[c].val.v[i] <= Scale
                     /\ GivenRedshift(c).v[i] = 0 => ret[c].val.v[i] = Scale

\* redshift 0 was given to an instance storing another redshift, 1 came back
C7_Witness ==
    \E c \in Callers :
        /\ FinishedCall(c, "calculate_scale_factor")
        /\ call[c].z = Scalar(0)
        /\ redshift_range = Scalar(Half)
        /\ ret[c] = Return(Scalar(Scale))

---------------------------------------------------------------------------
(* C8 *)

\* C8: a luminosity_distance call that returns has evaluated conformal_time
\* exactly twice, first at redshift 0 and then at the requested redshift, both
\* with the omega_m of the call (the argument, else the stored one), and
\* returns 3000 * (z + 1) * (eta(0) - eta(z)).
C8_TwoConformalTimes ==
    \A c \in Callers :
        FinishedCall(c, "luminosity_distance") /\ ret[c].kind = "val"
            => LET z == GivenRedshift(c)
                   om == GivenOmega(c)
                   eta_a1 == RunConformalTime(Scalar(0), om).val
                   eta_z == RunConformalTime(z, om).val
               IN  /\ Events(c, "conformal_time") =
                          <<Event("conformal_time", Scalar(0), om),
                            Event("conformal_time", z, om)>>
                   /\ Size(ret[c].val) = Size(z)
                   /\ \A i \in 1..Size(z) :
                         ret[c].val.v[i] =
                             (HubbleDistance * (z.v[i] + Scale)
                                * (eta_a1.v[1] - eta_z.v[i])) \div Scale

\* a call at a stored redshift other than 0 returned a positive distance
C8_Witness ==
    \E c \in Callers :
        /\ FinishedCall(c, "luminosity_distance")
        /\ call[c].z.k = "none"
        /\ redshift_range = Scalar(Half)
        /\ ret[c].kind = "val"
        /\ ret[c].val.v[1] > 0

---------------------------------------------------------------------------
(* C9 *)

\* what has happened in the call of thread c when the invalid-density error
\* is on its way out: calculate_parameter_s ran once, conformal_time once (at
\* redshift 0 under luminosity_distance), nothing was validated, no logarithm
DensityErrorStopsTheCall(c) ==
    ret[c] = Raise(InvalidDensity)
        => /\ Len(Events(c, "calculate_parameter_s")) = 1
           /\ UsedOmega(c) = Scalar(0)
           /\ Events(c, "check") = <<>>
           /\ Events(c, "log10") = <<>>
           /\ call[c].fn = "conformal_time"
                => Len(Events(c, "conformal_time")) = 1
           /\ call[c].fn \in {"luminosity_distance", "distance_modulus"}
                => /\ Len(Events(c, "conformal_time")) = 1
                   /\ Events(c, "conformal_time")[1].z = Scalar(0)
                   /\ Len(Events(c, "luminosity_distance")) = 1

\* a frame that sees an exception only leaves, with the exception unchanged
ErrorOnlyUnwinds(c) ==
    ret[c].kind = "err" /\ stack[c] # <<>>
        => \/ stack'[c] = stack[c] /\ ret'[c] = ret[c]
           \/ stack'[c] = Pop(stack[c]) /\ ret'[c] = ret[c] /\ trace'[c] = trace[c]

\* C9: the invalid-density error of calculate_parameter_s reaches the caller of
\* conformal_time, luminosity_distance or distance_modulus unchanged: every
\* call whose omega_m is 0 ends with it, no later step of the operation runs
\* and nothing is retried.
C9_DensityErrorPropagates ==
    /\ [][\A c \in Callers : ErrorOnlyUnwinds(c)]_vars
    /\ [](\A c \in Callers :
            /\ DensityErrorStopsTheCall(c)
            /\ Finished(c) /\ UsedOmega(c) = Scalar(0)
                 /\ call[c].fn # "calculate_scale_factor"
                 => ret[c] = Raise(InvalidDensity))

\* distance_modulus ended with the invalid-density error
C9_Witness ==
    \E c \in Callers :
        /\ FinishedCall(c, "distance_modulus")
        /\ ret[c] = Raise(InvalidDensity)

---------------------------------------------------------------------------
(* C10 *)

\* C10: with an omega_m that calculate_parameter_s accepts, distance_modulus
\* at redshift 0, or at an array of redshifts containing 0, never reaches the
\* logarithm and ends with the invalid-distance error.
C10_ZeroRedshiftRejected ==
    \A c \in Callers :
        /\ call[c].fn = "distance_modulus"
        /\ UsedOmega(c) # Scalar(0)
        /\ \E i \in 1..Size(GivenRedshift(c)) : GivenRedshift(c).v[i] = 0
        => /\ ~Running(c, "distance_modulus", "mu")
           /\ Finished(c) => ret[c] = Raise(InvalidDistance)

\* the array [0.0, 0.5, 1.0] was rejected
C10_Witness ==
    \E c \in Callers :
        /\ FinishedCall(c, "distance_modulus")
        /\ call[c].z = Array(<<0, Half, Scale>>)
        /\ omega_m # Scalar(0)
        /\ ret[c] = Raise(InvalidDistance)

====
